---- MODULE Spec2Model ----
(***************************************************************************)
(* Model of the client-side stitching pipeline (services/imageService:     *)
(* loadImage, readFileAsDataURL, stitchImages) and of the part of App.tsx  *)
(* that invokes it (handleStitch).                                         *)
(*                                                                         *)
(* JavaScript numbers are modelled as exact non-negative rationals         *)
(* <<n, d>> in lowest terms, extended with Infinity = <<1, 0>> and         *)
(* NaN = <<0, 0>>.  All dimensions used below have dyadic ratios, for      *)
(* which IEEE double arithmetic is exact.                                  *)
(***************************************************************************)
EXTENDS Integers, Sequences, FiniteSets, TLC

\* ------------------------------------------------------------------ bounds
MaxImages == 2

\* ----------------------------------------------------------------- numbers
NaN == <<0, 0>>
Infinity == <<1, 0>>

RECURSIVE GCD(_, _)
GCD(a, b) == IF b = 0 THEN a ELSE GCD(b, a % b)

\* n / d as a JavaScript number (n, d >= 0)
Norm(n, d) ==
  IF d = 0 THEN (IF n = 0 THEN NaN ELSE Infinity)
  ELSE LET g == GCD(n, d) IN <<n \div g, d \div g>>

Num(n) == <<n, 1>>
IsNaN(x) == x = NaN
IsFinite(x) == x[2] # 0

NumDiv(a, b) == Norm(a, b)
NumMul(x, y) == Norm(x[1] * y[1], x[2] * y[2])
NumAdd(x, y) ==
  IF IsNaN(x) \/ IsNaN(y) THEN NaN
  ELSE IF ~IsFinite(x) \/ ~IsFinite(y) THEN Infinity
  ELSE Norm(x[1] * y[2] + y[1] * x[2], x[2] * y[2])
\* x < y with IEEE semantics: every comparison with NaN is false
NumLess(x, y) ==
  IF IsNaN(x) \/ IsNaN(y) THEN FALSE
  ELSE IF ~IsFinite(x) THEN FALSE
  ELSE IF ~IsFinite(y) THEN TRUE
  ELSE x[1] * y[2] < y[1] * x[2]

\* Math.round: nearest integer, halves rounded up; NaN and Infinity unchanged
MathRound(x) ==
  IF ~IsFinite(x) THEN x ELSE Num((2 * x[1] + x[2]) \div (2 * x[2]))

\* WebIDL conversion of a number to "unsigned long": NaN and Infinity give 0,
\* otherwise truncate (the reduction modulo 2^32 is the identity on every
\* value of this model)
ToUint32(x) ==
  IF ~IsFinite(x) THEN 0 ELSE x[1] \div x[2]

\* ------------------------------------------------------------------- files
Null == [isNull |-> TRUE]

\* EXIF tag ids: 271 = Make
Tags == {271}
\* natural (width, height) a decoded file can report
Dims == {<<100, 50>>, <<200, 50>>, <<200, 51>>, <<100, 0>>, <<0, 50>>}

RECURSIVE SetToSortedSeq(_)
SetToSortedSeq(S) ==
  IF S = {} THEN <<>>
  ELSE LET m == CHOOSE x \in S : \A y \in S : x <= y
       IN <<m>> \o SetToSortedSeq(S \ {m})
SeqToSet(q) == {q[i] : i \in DOMAIN q}

\* the APP1 (Exif) segment of a JPEG byte stream: absent, or the serialized
\* tag directory
NoApp1 == [present |-> FALSE, tags |-> <<>>]
App1(dict) == [present |-> TRUE, tags |-> SetToSortedSeq(dict)]

\* what a file's bytes hold: not a JPEG at all, a JPEG without an APP1
\* segment, or a JPEG whose APP1 segment holds a (possibly empty) set of tags
Contents ==
  {[jpeg |-> FALSE, app1 |-> NoApp1], [jpeg |-> TRUE, app1 |-> NoApp1]}
  \cup {[jpeg |-> TRUE, app1 |-> App1(d)] : d \in SUBSET Tags}

\* a file that fails to decode leaves the element with natural size 0 x 0
CorruptFile ==
  [decodes |-> FALSE, w |-> 0, h |-> 0, jpeg |-> FALSE, app1 |-> NoApp1]
File ==
  {[decodes |-> TRUE, w |-> d[1], h |-> d[2], jpeg |-> c.jpeg, app1 |-> c.app1] :
      d \in Dims, c \in Contents} \cup {CorruptFile}

Inputs == UNION {[1..n -> File] : n \in 0..MaxImages}

\* ------------------------------------------------------ metadata library
\* piexif.load: throws on anything that is not a JPEG; a JPEG without an
\* APP1 segment yields the dictionary with no tags
PiexifLoadThrows(dataUrl) == ~dataUrl.jpeg
PiexifLoad(dataUrl) == SeqToSet(dataUrl.app1.tags)
\* piexif.dump: the serialized segment
PiexifDump(exifObj) == App1(exifObj)
\* piexif.insert: replaces or inserts the APP1 segment, leaves the rest alone
PiexifInsert(exifBytes, dataUrl) == [dataUrl EXCEPT !.app1 = exifBytes]

\* ------------------------------------------------------------ stitchImages
\* the HTMLImageElement a file decodes to; src is the object URL of input i
ImageOf(files, i) ==
  [src |-> i, naturalWidth |-> files[i].w, naturalHeight |-> files[i].h]

\* line 45
TargetWidth(loaded) == loaded[1].naturalWidth
\* line 51
ScaleFactor(tw, img) == NumDiv(tw, img.naturalWidth)
\* a variant that rounds every entry
ScaledHeightRounded(tw, img) ==
  MathRound(NumMul(Num(img.naturalHeight), ScaleFactor(tw, img)))
\* line 52
ScaledHeight(tw, img) == NumMul(Num(img.naturalHeight), ScaleFactor(tw, img))
\* lines 50-59
ImageDrawData(loaded) ==
  [i \in DOMAIN loaded |->
     [img |-> loaded[i],
      scaledHeight |-> ScaledHeight(TargetWidth(loaded), loaded[i]),
      scaleFactor |-> ScaleFactor(TargetWidth(loaded), loaded[i])]]
\* lines 47, 53: totalHeight after the first k entries
RECURSIVE TotalHeight(_, _)
TotalHeight(data, k) ==
  IF k = 0 THEN Num(0)
  ELSE NumAdd(TotalHeight(data, k - 1), data[k].scaledHeight)

\* lines 63-64: the width and height attributes of a canvas are unsigned long
CanvasWidth(tw) == ToUint32(Num(tw))
CanvasHeight(total) == ToUint32(total)

\* a variant that advances currentY by the natural height
RECURSIVE DrawCallsUnscaled(_, _, _)
DrawCallsUnscaled(data, tw, k) ==
  IF k = 0 THEN <<>>
  ELSE LET prev == DrawCallsUnscaled(data, tw, k - 1)
           currentY == IF k = 1 THEN Num(0)
                       ELSE NumAdd(prev[k - 1].y,
                                   Num(prev[k - 1].img.naturalHeight))
       IN Append(prev, [img |-> data[k].img, x |-> 0, y |-> currentY,
                        w |-> tw, h |-> data[k].scaledHeight])
\* lines 74-78: the drawImage calls, in the order they are issued
RECURSIVE DrawCalls(_, _, _)
DrawCalls(data, tw, k) ==
  IF k = 0 THEN <<>>
  ELSE LET prev == DrawCalls(data, tw, k - 1)
           currentY == IF k = 1 THEN Num(0)
                       ELSE NumAdd(prev[k - 1].y, prev[k - 1].h)
       IN Append(prev, [img |-> data[k].img, x |-> 0, y |-> currentY,
                        w |-> tw, h |-> data[k].scaledHeight])

\* line 83: the encoder's output, a JPEG without APP1 segment; a canvas
\* with a zero dimension encodes to the string "data:," instead
ToDataURL(cv, draws) ==
  [jpeg |-> cv.width > 0 /\ cv.height > 0, app1 |-> NoApp1,
   body |-> [width |-> cv.width, height |-> cv.height, draws |-> draws]]

\* line 90: the first file read as a data URL
ReadFileAsDataURL(file) == [jpeg |-> file.jpeg, app1 |-> file.app1, body |-> <<>>]
\* a variant that reads the last file
ExifSourceLast(files) == files[Len(files)]
\* line 90: the file whose metadata is transplanted
ExifSource(files) == files[1]

\* line 129
ResultHeight(total) == MathRound(total)

\* a variant that leaves finalDataUrl unset until the injection
InitialFinalDataUrlUnset(stitched) == Null
\* line 86: the bytes exported when nothing is injected
InitialFinalDataUrl(stitched) == stitched

\* lines 88-115, given what the environment does: whether the FileReader
\* succeeds, whether window.piexif is defined, whether dump or insert throw.
\* Yields the final bytes and the console message.
Transplant(stitched, file, readOk, hasPiexif, dumpThrows, insertThrows) ==
  LET firstImageDataUrl == ReadFileAsDataURL(file)
      fallback == InitialFinalDataUrl(stitched)
  IN IF ~readOk THEN [final |-> fallback, log |-> "error:exif"]
     ELSE IF ~hasPiexif THEN [final |-> fallback, log |-> "warn:nopiexif"]
     ELSE IF PiexifLoadThrows(firstImageDataUrl)
            \/ dumpThrows \/ insertThrows \/ ~stitched.jpeg
       THEN [final |-> fallback, log |-> "warn:exif"]
     ELSE [final |-> PiexifInsert(PiexifDump(PiexifLoad(firstImageDataUrl)),
                                  stitched),
           log |-> "log:transferred"]

\* Promise.all (line 40): fulfilled when every promise is fulfilled, rejected
\* as soon as one is rejected
\* variants: Promise.allSettled, and resuming on the first fulfilment
PromiseAllSettled(t) == \A i \in DOMAIN t : t[i] # "pending"
PromiseAny(t) == \E i \in DOMAIN t : t[i] = "loaded"
PromiseAllFulfilled(t) == \A i \in DOMAIN t : t[i] = "loaded"
PromiseAllRejected(t) == \E i \in DOMAIN t : t[i] = "error"

\* ------------------------------------------------------------------- state
VARIABLES
  mode,             \* App: 'client' | 'server'
  images,           \* App: the image list
  isProcessing,     \* App
  result,           \* App: the displayed StitchResult, or Null
  appPc,            \* position of handleStitch
  closure,          \* the image list the running handleStitch captured
  uploadedImages,   \* stitchImages: its argument
  state,            \* stitchImages: the pipeline stage
  error,            \* stitchImages: the error it rejected with, or "none"
  tasks,            \* per input image: "pending" | "loaded" | "error"
  urls,             \* indices of the inputs whose object URL is live
  loadedImages, targetWidth, imageDrawData, totalHeight,
  canvas, drawCalls, stitchedDataUrl, finalDataUrl, console,
  ret               \* stitchImages: the StitchResult it resolved with, or Null

appVars == <<mode, images, isProcessing, result, appPc, closure>>
loadVars == <<tasks, urls>>
planVars == <<loadedImages, targetWidth, imageDrawData, totalHeight>>
outVars == <<canvas, drawCalls, stitchedDataUrl, finalDataUrl, console, ret>>
vars == <<appVars, uploadedImages, state, error, loadVars, planVars, outVars>>

Init ==
  /\ mode \in {"client", "server"}
  /\ images \in Inputs
  /\ isProcessing = FALSE
  /\ result = Null
  /\ appPc = "idle"
  /\ closure = <<>>
  /\ uploadedImages = <<>>
  /\ state = "Idle"
  /\ error = "none"
  /\ tasks = <<>>
  /\ urls = {}
  /\ loadedImages = <<>>
  /\ targetWidth = 0
  /\ imageDrawData = <<>>
  /\ totalHeight = Num(0)
  /\ canvas = Null
  /\ drawCalls = <<>>
  /\ stitchedDataUrl = Null
  /\ finalDataUrl = Null
  /\ console = "none"
  /\ ret = Null

\* ------------------------------------------------------------ stitchImages
\* lines 34-40: the synchronous part of a call up to the first await
Enter(files) ==
  /\ uploadedImages' = files
  /\ IF Len(files) = 0
       THEN /\ state' = "Failed"
            /\ error' = "EmptyInput"
            /\ UNCHANGED loadVars
       ELSE /\ state' = "Loading"
            /\ error' = "none"
            /\ tasks' = [i \in DOMAIN files |-> "pending"]
            /\ urls' = DOMAIN files
  /\ UNCHANGED <<planVars, outVars>>

\* lines 10-13: img.onload
ImgOnload(i) ==
  /\ i \in DOMAIN tasks
  /\ tasks[i] = "pending"
  /\ uploadedImages[i].decodes
  /\ tasks' = [tasks EXCEPT ![i] = "loaded"]
  /\ UNCHANGED <<appVars, uploadedImages, state, error, urls, planVars, outVars>>

\* line 14: img.onerror
ImgOnerror(i) ==
  /\ i \in DOMAIN tasks
  /\ tasks[i] = "pending"
  /\ ~uploadedImages[i].decodes
  /\ tasks' = [tasks EXCEPT ![i] = "error"]
  /\ UNCHANGED <<appVars, uploadedImages, state, error, urls, planVars, outVars>>

\* line 40: the await resumes with the decoded images
LoadFulfilled ==
  /\ state = "Loading"
  /\ PromiseAllFulfilled(tasks)
  /\ loadedImages' = [i \in DOMAIN uploadedImages |-> ImageOf(uploadedImages, i)]
  /\ state' = "Planning"
  /\ UNCHANGED <<appVars, uploadedImages, error, loadVars, targetWidth,
                 imageDrawData, totalHeight, outVars>>

\* line 40: the await throws the first rejection
LoadRejected ==
  /\ state = "Loading"
  /\ PromiseAllRejected(tasks)
  /\ state' = "Failed"
  /\ error' = "Decode"
  /\ UNCHANGED <<appVars, uploadedImages, loadVars, planVars, outVars>>

\* lines 45-59
Plan ==
  /\ state = "Planning"
  /\ targetWidth' = TargetWidth(loadedImages)
  /\ imageDrawData' = ImageDrawData(loadedImages)
  /\ totalHeight' = TotalHeight(ImageDrawData(loadedImages), Len(loadedImages))
  /\ state' = "Compositing"
  /\ UNCHANGED <<appVars, uploadedImages, error, loadVars, loadedImages, outVars>>

\* lines 62-78; getContext may return null
Compose ==
  /\ state = "Compositing"
  /\ canvas' = [width |-> CanvasWidth(targetWidth),
                height |-> CanvasHeight(totalHeight)]
  /\ \E ctx \in BOOLEAN :
       IF ~ctx
         THEN /\ state' = "Failed"
              /\ error' = "NoContext"
              /\ UNCHANGED drawCalls
         ELSE /\ state' = "Encoding"
              /\ drawCalls' = DrawCalls(imageDrawData, targetWidth,
                                        Len(imageDrawData))
              /\ UNCHANGED error
  /\ UNCHANGED <<appVars, uploadedImages, loadVars, planVars,
                 stitchedDataUrl, finalDataUrl, console, ret>>

\* lines 83-86
Encode ==
  /\ state = "Encoding"
  /\ stitchedDataUrl' = ToDataURL(canvas, drawCalls)
  /\ finalDataUrl' = InitialFinalDataUrl(ToDataURL(canvas, drawCalls))
  /\ state' = "MetadataTransplant"
  /\ UNCHANGED <<appVars, uploadedImages, error, loadVars, planVars,
                 canvas, drawCalls, console, ret>>

\* lines 88-118: the FileReader completes, the metadata is transplanted and
\* the fetch of the final bytes is issued
MetadataTransplant ==
  /\ state = "MetadataTransplant"
  /\ \E readOk, hasPiexif, dumpThrows, insertThrows \in BOOLEAN :
       LET t == Transplant(stitchedDataUrl, ExifSource(uploadedImages),
                           readOk, hasPiexif, dumpThrows, insertThrows)
       IN /\ finalDataUrl' = t.final
          /\ console' = t.log
  /\ state' = "Exporting"
  /\ UNCHANGED <<appVars, uploadedImages, error, loadVars, planVars,
                 canvas, drawCalls, stitchedDataUrl, ret>>

\* lines 118-130: fetch and blob() settle; on success the object URLs of
\* the loaded images are revoked and the result is returned
Export ==
  /\ state = "Exporting"
  /\ \E ok \in BOOLEAN :
       IF ok
         THEN /\ urls' = urls \ {loadedImages[i].src : i \in DOMAIN loadedImages}
              /\ ret' = [blob |-> finalDataUrl, width |-> Num(targetWidth),
                         height |-> ResultHeight(totalHeight)]
              /\ state' = "Done"
              /\ UNCHANGED error
         ELSE /\ state' = "Failed"
              /\ error' = "Export"
              /\ UNCHANGED <<urls, ret>>
  /\ UNCHANGED <<appVars, uploadedImages, tasks, planVars, canvas, drawCalls,
                 stitchedDataUrl, finalDataUrl, console>>

\* --------------------------------------------------------------------- App
\* lines 66-95: handleStitch up to its first suspension
HandleStitch ==
  /\ appPc = "idle"
  /\ IF Len(images) = 0
       THEN /\ appPc' = "returned"
            /\ UNCHANGED <<isProcessing, result, closure>>
       ELSE /\ isProcessing' = TRUE
            /\ result' = Null
            /\ closure' = images
            /\ appPc' = IF mode = "client" THEN "timer" ELSE "fetching"
  /\ UNCHANGED <<mode, images, uploadedImages, state, error, loadVars,
                 planVars, outVars>>

\* lines 74-76: the timer fires and calls stitchImages(images), images
\* being the list the handler captured when it ran
TimerFires ==
  /\ appPc = "timer"
  /\ appPc' = "awaiting"
  /\ Enter(closure)
  /\ UNCHANGED <<mode, images, isProcessing, result, closure>>

\* lines 76-77, 81-83: stitchImages resolved
StitchResolved ==
  /\ appPc = "awaiting"
  /\ state = "Done"
  /\ result' = ret
  /\ isProcessing' = FALSE
  /\ appPc' = "done"
  /\ UNCHANGED <<mode, images, closure, uploadedImages, state, error, loadVars,
                 planVars, outVars>>

\* lines 78-83: stitchImages rejected
StitchRejected ==
  /\ appPc = "awaiting"
  /\ state = "Failed"
  /\ isProcessing' = FALSE
  /\ appPc' = "done"
  /\ UNCHANGED <<mode, images, closure, result, uploadedImages, state, error,
                 loadVars, planVars, outVars>>

\* lines 91-121: the backend answers (or the request fails)
ServerResponse ==
  /\ appPc = "fetching"
  /\ \E success \in BOOLEAN :
       result' = IF success
                   THEN [isLivePhoto |-> TRUE, files |-> closure]
                   ELSE result
  /\ isProcessing' = FALSE
  /\ appPc' = "done"
  /\ UNCHANGED <<mode, images, closure, uploadedImages, state, error, loadVars,
                 planVars, outVars>>

\* stitchImages is exported: a call from outside the App, with any argument
DirectCall ==
  /\ appPc = "idle"
  /\ appPc' = "direct"
  /\ Enter(images)
  /\ UNCHANGED <<mode, images, isProcessing, result, closure>>

\* ------------------------------------------------- App: editing the list
\* the files the user picks from: two images and one file that does not
\* decode
AppFiles ==
  {[decodes |-> TRUE, w |-> 100, h |-> 50, jpeg |-> TRUE, app1 |-> App1({271})],
   [decodes |-> TRUE, w |-> 200, h |-> 51, jpeg |-> TRUE, app1 |-> NoApp1],
   CorruptFile}
\* file.name, as its rank under localeCompare: the 100 x 50 image is
\* "b.jpg", the 200 x 51 image "a.jpg", the corrupt file "c.jpg"
FileName(f) == IF ~f.decodes THEN 3 ELSE IF f.w = 100 THEN 2 ELSE 1
\* the selections the uploader hands over: at least one file
Selections(maxLen) == UNION {[1..n -> AppFiles] : n \in 1..maxLen}

\* line 37: Array.prototype.sort by name (stable)
RECURSIVE SortByName(_)
SortByName(q) ==
  IF q = <<>> THEN <<>>
  ELSE LET rest == SortByName(SubSeq(q, 1, Len(q) - 1))
           last == q[Len(q)]
           k == Cardinality({i \in DOMAIN rest :
                               FileName(rest[i]) <= FileName(last)})
       IN SubSeq(rest, 1, k) \o <<last>> \o SubSeq(rest, k + 1, Len(rest))

\* lines 24-42
HandleFilesSelected(files) ==
  /\ Len(images) + Len(files) <= MaxImages
  /\ images' = IF mode = "server" THEN SortByName(images \o files)
               ELSE images \o files
  /\ result' = Null
  /\ UNCHANGED <<mode, isProcessing, appPc, closure, uploadedImages, state,
                 error, loadVars, planVars, outVars>>

\* lines 44-51; the id is that of the image at position i
RemoveImage(i) ==
  /\ i \in DOMAIN images
  /\ images' = SubSeq(images, 1, i - 1) \o SubSeq(images, i + 1, Len(images))
  /\ result' = Null
  /\ UNCHANGED <<mode, isProcessing, appPc, closure, uploadedImages, state,
                 error, loadVars, planVars, outVars>>

\* lines 53-64
MoveImage(index, direction) ==
  /\ index \in DOMAIN images
  /\ IF (direction = "up" /\ index = 1)
          \/ (direction = "down" /\ index = Len(images))
       THEN UNCHANGED <<images, result>>
       ELSE LET targetIndex == IF direction = "up" THEN index - 1 ELSE index + 1
            IN /\ images' = [images EXCEPT ![index] = images[targetIndex],
                                           ![targetIndex] = images[index]]
               /\ result' = Null
  /\ UNCHANGED <<mode, isProcessing, appPc, closure, uploadedImages, state,
                 error, loadVars, planVars, outVars>>

\* lines 164-170, given the answer to its confirm dialog
ClearAllBody(confirmed) ==
  IF confirmed
    THEN /\ images' = <<>>
         /\ result' = Null
    ELSE UNCHANGED <<images, result>>

\* lines 164-170; the button is rendered when the list is not empty
\* (line 239)
ClearAll ==
  /\ Len(images) > 0
  /\ \E confirmed \in BOOLEAN : ClearAllBody(confirmed)
  /\ UNCHANGED <<mode, isProcessing, appPc, closure, uploadedImages, state,
                 error, loadVars, planVars, outVars>>

\* lines 172-178, for every answer to the two confirm dialogs
ToggleMode ==
  /\ IF Len(images) > 0
       THEN \E continue \in BOOLEAN :
              IF ~continue
                THEN UNCHANGED <<mode, images, result>>
                ELSE /\ \E confirmed \in BOOLEAN : ClearAllBody(confirmed)
                     /\ mode' = IF mode = "client" THEN "server" ELSE "client"
       ELSE /\ mode' = IF mode = "client" THEN "server" ELSE "client"
            /\ UNCHANGED <<images, result>>
  /\ UNCHANGED <<isProcessing, appPc, closure, uploadedImages, state,
                 error, loadVars, planVars, outVars>>

Next ==
  \/ HandleStitch
  \/ TimerFires
  \/ DirectCall
  \/ \E i \in 1..MaxImages : ImgOnload(i)
  \/ \E i \in 1..MaxImages : ImgOnerror(i)
  \/ LoadFulfilled
  \/ LoadRejected
  \/ Plan
  \/ Compose
  \/ Encode
  \/ MetadataTransplant
  \/ Export
  \/ StitchResolved
  \/ StitchRejected
  \/ ServerResponse

Spec == Init /\ [][Next]_vars

\* The App from its initial render (lines 11-14), the user editing the list
\* and switching modes while a stitch is in flight.
AppInit ==
  /\ mode = "server"
  /\ images = <<>>
  /\ isProcessing = FALSE
  /\ result = Null
  /\ appPc = "idle"
  /\ closure = <<>>
  /\ uploadedImages = <<>>
  /\ state = "Idle"
  /\ error = "none"
  /\ tasks = <<>>
  /\ urls = {}
  /\ loadedImages = <<>>
  /\ targetWidth = 0
  /\ imageDrawData = <<>>
  /\ totalHeight = Num(0)
  /\ canvas = Null
  /\ drawCalls = <<>>
  /\ stitchedDataUrl = Null
  /\ finalDataUrl = Null
  /\ console = "none"
  /\ ret = Null

AppNext ==
  \/ \E files \in Selections(MaxImages) : HandleFilesSelected(files)
  \/ \E i \in 1..MaxImages : RemoveImage(i)
  \/ \E i \in 1..MaxImages, d \in {"up", "down"} : MoveImage(i, d)
  \/ ClearAll
  \/ ToggleMode
  \/ HandleStitch
  \/ TimerFires
  \/ \E i \in 1..MaxImages : ImgOnload(i)
  \/ \E i \in 1..MaxImages : ImgOnerror(i)
  \/ LoadFulfilled
  \/ LoadRejected
  \/ Plan
  \/ Compose
  \/ Encode
  \/ MetadataTransplant
  \/ Export
  \/ StitchResolved
  \/ StitchRejected
  \/ ServerResponse

AppSpec == AppInit /\ [][AppNext]_vars

\* ================================================================== claims
Terminal == {"Done", "Failed"}
PositiveWidths == \A i \in DOMAIN uploadedImages : uploadedImages[i].w > 0
PositiveHeights == \A i \in DOMAIN uploadedImages : uploadedImages[i].h > 0

\* C1: every object URL acquired by loadImage is released by the time the
\* invocation ends, on every exit path (as claimed).
C1_HandlesReleasedOnEveryExit == state \in Terminal => urls = {}

\* C2: the metadata transplant never raises: whatever fails (reading the
\* first file, load, dump, insert, or piexif missing), the pipeline moves
\* on to export and the bytes handed to it are the encoder's output.
C2_TransplantNeverRaises ==
  [][state = "MetadataTransplant" /\ state' # state =>
       /\ state' = "Exporting"
       /\ error' = "none"
       /\ (console' # "log:transferred" => finalDataUrl' = stitchedDataUrl')
       /\ stitchedDataUrl' = stitchedDataUrl]_vars
C2_Witness ==
  /\ state = "Exporting"
  /\ PositiveWidths /\ PositiveHeights
  /\ console \in {"error:exif", "warn:nopiexif", "warn:exif"}
  /\ finalDataUrl = stitchedDataUrl

\* C3: if one of the inputs fails to decode, the invocation never gets past
\* Loading, fails with the decode error, allocates no canvas and returns no
\* result, and the App's displayed result stays null.
HasCorrupt == \E i \in DOMAIN uploadedImages : ~uploadedImages[i].decodes
C3_FailFast ==
  HasCorrupt =>
    /\ state \in {"Loading", "Failed"}
    /\ (state = "Failed" => error = "Decode")
    /\ canvas = Null
    /\ ret = Null
    /\ result = Null
C3_Witness ==
  /\ HasCorrupt
  /\ state = "Failed"
  /\ \E i \in DOMAIN tasks : tasks[i] = "loaded"
  /\ appPc = "done"
  /\ result = Null

\* C4: the stages follow one another in the fixed order, compositing starts
\* only after every decode succeeded, the terminal states are final.
StageOrder ==
  {<<"Idle", "Loading">>, <<"Loading", "Planning">>,
   <<"Planning", "Compositing">>, <<"Compositing", "Encoding">>,
   <<"Encoding", "MetadataTransplant">>, <<"MetadataTransplant", "Exporting">>,
   <<"Exporting", "Done">>}
FailedFromClaimed ==
  {"Loading", "Planning", "Compositing", "Encoding", "Exporting"}
StageStep(failedFrom) ==
  /\ state' # state =>
       \/ <<state, state'>> \in StageOrder
       \/ state' = "Failed" /\ state \in failedFrom
  /\ state' \in {"Compositing", "Encoding", "MetadataTransplant",
                 "Exporting", "Done"} =>
       /\ tasks' # <<>>
       /\ \A i \in DOMAIN tasks' : tasks'[i] = "loaded"
Planned == imageDrawData # <<>>
RECURSIVE RefTotal(_, _)
RefTotal(files, k) ==
  IF k = 0 THEN Num(0)
  ELSE NumAdd(RefTotal(files, k - 1), Norm(files[k].h * files[1].w, files[k].w))
RECURSIVE SumHeights(_, _)
SumHeights(files, k) ==
  IF k = 0 THEN 0 ELSE SumHeights(files, k - 1) + files[k].h
IsExample ==
  /\ Len(uploadedImages) = 2
  /\ <<uploadedImages[1].w, uploadedImages[1].h>> = <<100, 50>>
  /\ <<uploadedImages[2].w, uploadedImages[2].h>> = <<200, 50>>
C5_LayoutIsReferencePlan ==
  Planned /\ PositiveWidths =>
    /\ targetWidth = uploadedImages[1].w
    /\ DOMAIN imageDrawData = DOMAIN uploadedImages
    /\ \A i \in DOMAIN imageDrawData :
         imageDrawData[i].scaledHeight =
           Norm(uploadedImages[i].h * uploadedImages[1].w, uploadedImages[i].w)
    /\ totalHeight = RefTotal(uploadedImages, Len(uploadedImages))
    /\ (ret # Null => ret.width = Num(uploadedImages[1].w))
    /\ ((\A i \in DOMAIN uploadedImages : uploadedImages[i].w = uploadedImages[1].w)
          => totalHeight = Num(SumHeights(uploadedImages, Len(uploadedImages))))
    /\ (IsExample /\ ret # Null =>
          /\ ret.width = Num(100) /\ ret.height = Num(75)
          /\ canvas.width = 100 /\ canvas.height = 75)
C5_Witness ==
  /\ IsExample
  /\ ret # Null
  /\ imageDrawData[2].scaledHeight = Num(25)

\* C6: the surface has height round(totalHeight) and the result reports the
\* height of the surface (as claimed; stated for the inputs with positive
\* widths, whose totalHeight is finite).
C6_ReportedHeightIsSurfaceHeight ==
  PositiveWidths =>
    /\ canvas # Null => Num(canvas.height) = MathRound(totalHeight)
    /\ ret # Null => ret.height = Num(canvas.height)

\* C7: when the first file has no metadata segment, or a segment without
\* tags, the exported bytes are the encoder's output (as claimed).
FirstHasNoTags ==
  /\ uploadedImages # <<>>
  /\ uploadedImages[1].app1.tags = <<>>
C7_NothingInjectedWithoutTags ==
  ret # Null /\ FirstHasNoTags =>
    /\ ret.blob = stitchedDataUrl
    /\ ~ret.blob.app1.present

\* C8: draw order and offsets.
DrawOrder ==
  /\ DOMAIN drawCalls = DOMAIN uploadedImages
  /\ \A i \in DOMAIN drawCalls :
       /\ drawCalls[i].img.src = i
       /\ drawCalls[i].img = ImageOf(uploadedImages, i)
       /\ drawCalls[i].y = TotalHeight(imageDrawData, i - 1)
  /\ drawCalls[1].y = Num(0)
C9_ZeroWidthRejected ==
  /\ \A i \in DOMAIN loadedImages : loadedImages[i].naturalWidth # 0
  /\ (\E i \in DOMAIN uploadedImages :
        uploadedImages[i].decodes /\ uploadedImages[i].w = 0) => ret = Null

\* C10: when the transplant succeeds the output carries exactly the
\* dictionary of the first source file, whatever the other files carry.
C10_FirstImageMetadataOnly ==
  console = "log:transferred" =>
    /\ finalDataUrl.app1.present
    /\ PiexifLoad(finalDataUrl) = SeqToSet(uploadedImages[1].app1.tags)
    /\ (ret # Null => PiexifLoad(ret.blob) = SeqToSet(uploadedImages[1].app1.tags))
C10_Witness ==
  /\ ret # Null
  /\ console = "log:transferred"
  /\ Len(uploadedImages) = 2
  /\ uploadedImages[1].app1.tags = <<271>>
  /\ uploadedImages[2].app1.tags = <<>>
  /\ PiexifLoad(ret.blob) = {271}

\* C11: whenever a result is displayed, it was computed from the image list
\* currently held: the list the stitch captured is the current list (as
\* claimed).
C11_ResultMatchesImages == result # Null => closure = images

\* C12: whenever toggleMode changes the mode the image list is empty
\* afterwards; if the list is left non-empty the mode is unchanged (as
\* claimed).
C12_ModeChangeClearsImages == [][mode' # mode => images' = <<>>]_vars

====
